---------------------------- MODULE Spec2Model ----------------------------
(***************************************************************************)
(* Unified SMM Alert Receiver (src/app.py).                                *)
(*                                                                         *)
(* Two in-memory channels share one process:                               *)
(*   - HTTP alerts : alerts_store (deque) + alert_stats (dict), written by *)
(*     receive_alert / clear_alerts on the threads of the Flask server;    *)
(*   - e-mails     : emails_store (deque) + email_stats (dict), written by *)
(*     CustomSMTPHandler.handle_DATA on the single asyncio loop thread and *)
(*     by clear_emails on a Flask thread.                                  *)
(* The module holds no lock.  A handler is therefore modelled as the       *)
(* sequence of its accesses to the shared objects, one step per access,    *)
(* and the threads interleave between those steps.                         *)
(***************************************************************************)
EXTENDS Integers, Sequences, FiniteSets, TLC

(***************************************************************************)
(* Bounds of the model.                                                    *)
(***************************************************************************)
\* deque(maxlen=1000) of src/app.py:35 and :49, scaled down.
maxlen == 2
\* Flask request threads that may be inside a handler at the same time.
NumWorkers == 2
\* SMTP sessions (connections) served by the event loop.
NumSessions == 1
\* Handler invocations / mail transactions started in one behaviour of Spec.
MaxOps == 3
\* Handler invocations / mail transactions started in one behaviour of SpecSeq.
MaxSeqOps == 3

Workers  == 1..NumWorkers
Sessions == 1..NumSessions

(***************************************************************************)
(* Python values.                                                          *)
(***************************************************************************)
Min(a, b) == IF a < b THEN a ELSE b
Max(a, b) == IF a > b THEN a ELSE b

\* {} : the empty dict.
EmptyDict == [k \in {} |-> 0]

\* d.get(k, default)
DictGet(d, k, default) == IF k \in DOMAIN d THEN d[k] ELSE default

\* d[k] = v
DictSet(d, k, v) == [x \in (DOMAIN d) \cup {k} |-> IF x = k THEN v ELSE d[x]]

\* sum of the values of a dict of counters
RECURSIVE DictSum(_)
DictSum(d) ==
    IF DOMAIN d = {} THEN 0
    ELSE LET k == CHOOSE x \in DOMAIN d : TRUE
         IN  d[k] + DictSum([x \in (DOMAIN d) \ {k} |-> d[x]])

\* deque.append(x) on a deque(maxlen=maxlen): the head is dropped when full.
DequeAppendNoEvict(dq, x) == Append(dq, x)
DequeAppend(dq, x) ==
    IF Len(dq) >= maxlen THEN Append(Tail(dq), x) ELSE Append(dq, x)

\* list.reverse()
KeepOrder(s) == s
Reverse(s) == [i \in 1..Len(s) |-> s[Len(s) + 1 - i]]

\* s[lo:hi] with Python's treatment of negative and out-of-range indices.
PySliceOneShort(s, lo, hi) ==
    LET n == Len(s)
        norm(i) == IF i < 0 THEN Max(n + i, 0) ELSE Min(i, n)
        a == norm(lo)
        b == norm(hi - 1)
    IN  IF a < b THEN SubSeq(s, a + 1, b) ELSE << >>
PySlice(s, lo, hi) ==
    LET n == Len(s)
        norm(i) == IF i < 0 THEN Max(n + i, 0) ELSE Min(i, n)
        a == norm(lo)
        b == norm(hi)
    IN  IF a < b THEN SubSeq(s, a + 1, b) ELSE << >>

\* [x for x in s if P(x)]
RECURSIVE SelectSeqIdx(_, _, _)
SelectSeqIdx(s, keep, i) ==
    IF i > Len(s) THEN << >>
    ELSE IF s[i] \in keep THEN << s[i] >> \o SelectSeqIdx(s, keep, i + 1)
         ELSE SelectSeqIdx(s, keep, i + 1)

(***************************************************************************)
(* Request bodies of POST /api/alerts.  request.get_json(force=True)       *)
(* raises on a body that is not JSON and returns the parsed value          *)
(* otherwise: a dict for a JSON object, a list for a JSON array.           *)
(***************************************************************************)
JsonObject(fields) == [kind |-> "object", fields |-> fields]
JsonArray          == [kind |-> "array",  fields |-> EmptyDict]
NotJson            == [kind |-> "invalid", fields |-> EmptyDict]

Bodies ==
    { NotJson,
      JsonArray,
      JsonObject(EmptyDict),
      JsonObject(("severity" :> "CRITICAL") @@ ("alertType" :> "BROKER_DOWN")),
      JsonObject(("severity" :> "WARNING") @@ ("type" :> "LAG")) }

\* alert_data.get(key, default): AttributeError unless alert_data is a dict.
IsDict(v) == v.kind = "object"


(***************************************************************************)
(* State.                                                                  *)
(***************************************************************************)
VARIABLES
    alerts_store,   \* src/app.py:35  deque of enriched alerts
    alert_stats,    \* src/app.py:38  total_received, by_severity, by_type
    emails_store,   \* src/app.py:49  deque of e-mail records
    email_stats,    \* src/app.py:52  total_received, by_sender, by_subject
    environ,        \* os.environ: SMTP_USERNAME / SMTP_PASSWORD when set
    http,           \* per Flask thread: position in its handler and its locals
    response,       \* the HTTP response returned last
    session,        \* per SMTP session: protocol state, authenticated flag
    loop,           \* the asyncio loop thread: position in handle_DATA, locals
    smtp_reply,     \* the SMTP reply sent last
    ops,            \* handler invocations and mail transactions started
    alert_ids,      \* history: alert_id of each successful POST since the last clear
    alert_rejects,  \* history: POSTs answered with an error since the last clear
    alert_cleared,  \* history: clear_alerts has run
    alerts_appended,\* history: values appended to alerts_store since its last clear()
    email_ids,      \* history: id of each accepted message since the last clear
    email_rejects,  \* history: messages answered 550 since the last clear
    email_cleared,  \* history: clear_emails has run
    emails_appended \* history: values appended to emails_store since its last clear()

alert_vars == << alerts_store, alert_stats, alert_ids, alert_rejects,
                 alert_cleared, alerts_appended >>
email_vars == << emails_store, email_stats, email_ids, email_rejects,
                 email_cleared, emails_appended >>
smtp_vars  == << session, loop, smtp_reply >>
vars == << alerts_store, alert_stats, emails_store, email_stats, environ,
           http, response, session, loop, smtp_reply, ops,
           alert_ids, alert_rejects, alert_cleared, alerts_appended,
           email_ids, email_rejects, email_cleared, emails_appended >>

\* A Flask thread outside any handler.
IdleThread == [pc |-> "idle", alert_data |-> NotJson, id |-> 0, tmp |-> 0]
\* The loop thread outside handle_DATA: no message in hand.
NoMessage == [mail_from |-> << >>, multipart |-> FALSE, headers |-> EmptyDict,
              parts |-> << >>]
IdleLoop == [pc |-> "idle", session |-> 0, message |-> NoMessage, sender |-> << >>,
             subject |-> << >>, body |-> << >>, id |-> 0, tmp |-> 0]
NoResponse == [op |-> "none", status |-> 0]
NoReply    == [cmd |-> "none", code |-> 0]

\* No handler is in progress on any thread.
Quiescent == (\A w \in Workers : http[w].pc = "idle") /\ loop.pc = "idle"

(***************************************************************************)
(* Scheduling.  Concurrent: the threads interleave freely (the program).   *)
(* Serial: a request is started only when no other is in progress, which   *)
(* is how one caller issuing one request after the other drives it.        *)
(***************************************************************************)
Concurrent == [serial |-> FALSE, max |-> MaxOps]
Serial     == [serial |-> TRUE,  max |-> MaxSeqOps]
MayStart(sched) == ops < sched.max /\ (sched.serial => Quiescent)

\* The server hands a new request to a free thread; which one is immaterial,
\* so it is the first free one.
FreeThread(w) ==
    /\ http[w].pc = "idle"
    /\ \A v \in Workers : v < w => http[v].pc # "idle"

Return(w, resp) ==
    /\ http' = [http EXCEPT ![w] = IdleThread]
    /\ response' = resp @@ [worker |-> w]

(***************************************************************************)
(* POST /api/alerts : receive_alert, src/app.py:296-345                    *)
(***************************************************************************)
AlertError == [op |-> "receive_alert", status |-> 500, error |-> TRUE]

\* alert_data.get('severity', 'UNKNOWN')
SeverityOf(alert_data) == DictGet(alert_data.fields, "severity", "UNKNOWN")
\* alert_data.get('alertType', alert_data.get('type', 'UNKNOWN'))
AlertTypeOfNoLegacy(alert_data) == DictGet(alert_data.fields, "alertType", "UNKNOWN")
AlertTypeOf(alert_data) ==
    DictGet(alert_data.fields, "alertType",
            DictGet(alert_data.fields, "type", "UNKNOWN"))

\* lines 307-311: parse the body, then read alert_stats['total_received'].
receive_alert(sched, w, body) ==
    /\ MayStart(sched)
    /\ FreeThread(w)
    /\ ops' = ops + 1
    /\ IF body.kind = "invalid"
       THEN \* get_json raises: except branch, lines 340-345
            /\ Return(w, AlertError)
            /\ alert_rejects' = alert_rejects + 1
       ELSE /\ http' = [http EXCEPT ![w] =
                   [pc |-> "ra311w", alert_data |-> body, id |-> 0,
                    tmp |-> alert_stats.total_received]]
            /\ UNCHANGED << response, alert_rejects >>
    /\ UNCHANGED << alerts_store, alert_stats, alert_ids, alert_cleared,
                    alerts_appended, email_vars, smtp_vars, environ >>

\* line 311: alert_stats['total_received'] += 1, the store of the sum.
ra_store_total(w) ==
    /\ http[w].pc = "ra311w"
    /\ alert_stats' = [alert_stats EXCEPT !.total_received = http[w].tmp + 1]
    /\ http' = [http EXCEPT ![w].pc = "ra315", ![w].tmp = 0]
    /\ UNCHANGED << alerts_store, alert_ids, alert_rejects, alert_cleared,
                    alerts_appended, email_vars, smtp_vars, environ, response, ops >>

\* line 315: 'id': alert_stats['total_received']
ra_read_id_one_ahead(w) ==
    /\ http[w].pc = "ra315"
    /\ http' = [http EXCEPT ![w].pc = "ra322", ![w].id = alert_stats.total_received + 1]
    /\ UNCHANGED << alert_vars, email_vars, smtp_vars, environ, response, ops >>
ra_read_id(w) ==
    /\ http[w].pc = "ra315"
    /\ http' = [http EXCEPT ![w].pc = "ra322", ![w].id = alert_stats.total_received]
    /\ UNCHANGED << alert_vars, email_vars, smtp_vars, environ, response, ops >>

EnrichedAlertWithoutData(id, alert_data) == [id |-> id, data |-> JsonObject(EmptyDict)]
EnrichedAlert(id, alert_data) == [id |-> id, data |-> alert_data]

\* line 322: alerts_store.append(enriched_alert); line 325: alert_data.get(...)
\* raises AttributeError when alert_data is not a dict (except branch, 340-345);
\* line 326: read alert_stats['by_severity'].get(severity, 0).
ra_append(w) ==
    /\ http[w].pc = "ra322"
    /\ LET rec == EnrichedAlert(http[w].id, http[w].alert_data)
       IN  /\ alerts_store' = DequeAppend(alerts_store, rec)
           /\ alerts_appended' = Append(alerts_appended, rec)
    /\ http' = [http EXCEPT ![w].pc = "ra325"]
    /\ UNCHANGED << alert_stats, alert_ids, alert_rejects, alert_cleared,
                    email_vars, smtp_vars, environ, response, ops >>

ra_load_severity(w) ==
    /\ http[w].pc = "ra325"
    /\ IF ~IsDict(http[w].alert_data)
       THEN /\ Return(w, AlertError)
            /\ alert_rejects' = alert_rejects + 1
       ELSE /\ http' = [http EXCEPT ![w].pc = "ra326w",
                   ![w].tmp = DictGet(alert_stats.by_severity,
                                      SeverityOf(http[w].alert_data), 0)]
            /\ UNCHANGED << response, alert_rejects >>
    /\ UNCHANGED << alerts_store, alert_stats, alert_ids, alert_cleared,
                    alerts_appended, email_vars, smtp_vars, environ, ops >>

\* line 326: alert_stats['by_severity'][severity] = ... + 1
ra_store_severity(w) ==
    /\ http[w].pc = "ra326w"
    /\ alert_stats' = [alert_stats EXCEPT !.by_severity =
           DictSet(@, SeverityOf(http[w].alert_data), http[w].tmp + 1)]
    /\ http' = [http EXCEPT ![w].pc = "ra330r", ![w].tmp = 0]
    /\ UNCHANGED << alerts_store, alert_ids, alert_rejects, alert_cleared,
                    alerts_appended, email_vars, smtp_vars, environ, response, ops >>

\* line 330: read alert_stats['by_type'].get(alert_type, 0)
ra_load_type(w) ==
    /\ http[w].pc = "ra330r"
    /\ http' = [http EXCEPT ![w].pc = "ra330w",
           ![w].tmp = DictGet(alert_stats.by_type, AlertTypeOf(http[w].alert_data), 0)]
    /\ UNCHANGED << alert_vars, email_vars, smtp_vars, environ, response, ops >>

\* line 330: alert_stats['by_type'][alert_type] = ... + 1; lines 334-338: return.
ra_store_type(w) ==
    /\ http[w].pc = "ra330w"
    /\ alert_stats' = [alert_stats EXCEPT !.by_type =
           DictSet(@, AlertTypeOf(http[w].alert_data), http[w].tmp + 1)]
    /\ Return(w, [op |-> "receive_alert", status |-> 200, error |-> FALSE,
                  alert_id |-> http[w].id])
    /\ alert_ids' = Append(alert_ids, http[w].id)
    /\ UNCHANGED << alerts_store, alert_rejects, alert_cleared, alerts_appended,
                    email_vars, smtp_vars, environ, ops >>

(***************************************************************************)
(* POST /api/alerts/clear : clear_alerts, src/app.py:408-431               *)
(***************************************************************************)
\* line 415: alerts_store.clear()
clear_alerts(sched, w) ==
    /\ MayStart(sched)
    /\ FreeThread(w)
    /\ ops' = ops + 1
    /\ alerts_store' = << >>
    /\ alerts_appended' = << >>
    /\ alert_ids' = << >>
    /\ alert_rejects' = 0
    /\ alert_cleared' = TRUE
    /\ http' = [http EXCEPT ![w].pc = "ca418"]
    /\ UNCHANGED << alert_stats, email_vars, smtp_vars, environ, response >>

\* line 418: alert_stats['total_received'] = 0
ca_reset_total(w) ==
    /\ http[w].pc = "ca418"
    /\ alert_stats' = [alert_stats EXCEPT !.total_received = 0]
    /\ http' = [http EXCEPT ![w].pc = "ca419"]
    /\ UNCHANGED << alerts_store, alert_ids, alert_rejects, alert_cleared,
                    alerts_appended, email_vars, smtp_vars, environ, response, ops >>

\* line 419: alert_stats['by_severity'].clear()
ca_clear_severity(w) ==
    /\ http[w].pc = "ca419"
    /\ alert_stats' = [alert_stats EXCEPT !.by_severity = EmptyDict]
    /\ http' = [http EXCEPT ![w].pc = "ca420"]
    /\ UNCHANGED << alerts_store, alert_ids, alert_rejects, alert_cleared,
                    alerts_appended, email_vars, smtp_vars, environ, response, ops >>

\* line 420: alert_stats['by_type'].clear(); lines 422-425: return.
ca_clear_type(w) ==
    /\ http[w].pc = "ca420"
    /\ alert_stats' = [alert_stats EXCEPT !.by_type = EmptyDict]
    /\ Return(w, [op |-> "clear_alerts", status |-> 200, error |-> FALSE])
    /\ UNCHANGED << alerts_store, alert_ids, alert_rejects, alert_cleared,
                    alerts_appended, email_vars, smtp_vars, environ, ops >>

(***************************************************************************)
(* GET /api/alerts, /api/alerts/stats, /health : src/app.py:348-405, 528   *)
(* Each takes its snapshot of the shared objects in one access.            *)
(***************************************************************************)
\* request.args.get('severity', None) when the parameter is absent
NoFilter == ""

\* lines 355-389.  The record is the reply together with the parameters
\* of the request it answers (lines 355-357).
get_alerts_result(store, limit, offset, severity_filter) ==
    IF severity_filter # NoFilter /\ \E i \in 1..Len(store) : ~IsDict(store[i].data)
    THEN \* alert['data'].get raises AttributeError: except branch, 384-389
         [op |-> "get_alerts", status |-> 500, error |-> TRUE,
          offset |-> offset, limit |-> limit, severity |-> severity_filter]
    ELSE LET keep == IF severity_filter = NoFilter
                     THEN { store[i] : i \in 1..Len(store) }
                     ELSE { r \in { store[i] : i \in 1..Len(store) } :
                              /\ "severity" \in DOMAIN r.data.fields
                              /\ r.data.fields["severity"] = severity_filter }
             alerts_list == Reverse(SelectSeqIdx(store, keep, 1))
         IN  [op |-> "get_alerts", status |-> 200, error |-> FALSE,
              alerts |-> PySlice(alerts_list, offset, offset + limit),
              total |-> Len(alerts_list), offset |-> offset, limit |-> limit,
              severity |-> severity_filter]

get_alerts(sched, w, limit, offset, severity_filter) ==
    /\ MayStart(sched)
    /\ FreeThread(w)
    /\ ops' = ops + 1
    /\ Return(w, get_alerts_result(alerts_store, limit, offset, severity_filter))
    /\ UNCHANGED << alert_vars, email_vars, smtp_vars, environ >>

\* lines 392-399
get_alert_stats(sched, w) ==
    /\ MayStart(sched)
    /\ FreeThread(w)
    /\ ops' = ops + 1
    /\ Return(w, [op |-> "get_alert_stats", status |-> 200, error |-> FALSE,
                  stats |-> alert_stats])
    /\ UNCHANGED << alert_vars, email_vars, smtp_vars, environ >>

\* health_check reporting the e-mail store's size for both stores
health_check_of_emails(sched, w) ==
    /\ MayStart(sched)
    /\ FreeThread(w)
    /\ ops' = ops + 1
    /\ Return(w, [op |-> "health_check", status |-> 200, error |-> FALSE,
                  alerts_stored |-> Len(emails_store),
                  emails_stored |-> Len(emails_store)])
    /\ UNCHANGED << alert_vars, email_vars, smtp_vars, environ >>

\* lines 528-546
health_check(sched, w) ==
    /\ MayStart(sched)
    /\ FreeThread(w)
    /\ ops' = ops + 1
    /\ Return(w, [op |-> "health_check", status |-> 200, error |-> FALSE,
                  alerts_stored |-> Len(alerts_store),
                  emails_stored |-> Len(emails_store)])
    /\ UNCHANGED << alert_vars, email_vars, smtp_vars, environ >>

(***************************************************************************)
(* Text.  A str is the sequence of its code points, a bytes object the     *)
(* sequence of its bytes.                                                  *)
(***************************************************************************)
Str(v)   == [t |-> "str", v |-> v]
Bytes(v) == [t |-> "bytes", v |-> v]

\* 'admin', the default of SMTP_USERNAME and SMTP_PASSWORD (src/app.py:185-186)
admin == << 97, 100, 109, 105, 110 >>
\* 'No Subject' (src/app.py:82)
NoSubject == << 78, 111, 32, 83, 117, 98, 106, 101, 99, 116 >>
\* 'attachment' (src/app.py:154)
attachment == << 97, 116, 116, 97, 99, 104, 109, 101, 110, 116 >>
\* U+FFFD, what errors='replace' puts for an undecodable byte
ReplacementChar == 65533

\* bytes.decode('utf-8'): one- and two-byte sequences; any other byte is an
\* error.  ok = FALSE stands for UnicodeDecodeError.
RECURSIVE Utf8Decode(_)
Utf8Decode(b) ==
    IF b = << >> THEN [ok |-> TRUE, v |-> << >>]
    ELSE IF b[1] < 128
    THEN LET r == Utf8Decode(Tail(b))
         IN  [ok |-> r.ok, v |-> << b[1] >> \o r.v]
    ELSE IF b[1] \in 194..223 /\ Len(b) >= 2 /\ b[2] \in 128..191
    THEN LET r == Utf8Decode(SubSeq(b, 3, Len(b)))
         IN  [ok |-> r.ok, v |-> << (b[1] - 192) * 64 + (b[2] - 128) >> \o r.v]
    ELSE [ok |-> FALSE, v |-> << >>]

\* bytes.decode('utf-8', errors='replace')
RECURSIVE Utf8DecodeReplace(_)
Utf8DecodeReplace(b) ==
    IF b = << >> THEN << >>
    ELSE IF b[1] < 128 THEN << b[1] >> \o Utf8DecodeReplace(Tail(b))
    ELSE IF b[1] \in 194..223 /\ Len(b) >= 2 /\ b[2] \in 128..191
    THEN << (b[1] - 192) * 64 + (b[2] - 128) >> \o Utf8DecodeReplace(SubSeq(b, 3, Len(b)))
    ELSE << ReplacementChar >> \o Utf8DecodeReplace(Tail(b))

\* str.lower() on the ASCII letters
Lower(s) == [i \in 1..Len(s) |-> IF s[i] \in 65..90 THEN s[i] + 32 ELSE s[i]]

\* sub in s
Contains(sub, s) ==
    \E i \in 0..(Len(s) - Len(sub)) : SubSeq(s, i + 1, i + Len(sub)) = sub

\* str.strip()
Whitespace == { 9, 10, 11, 12, 13, 32 }
RECURSIVE LStrip(_)
LStrip(s) == IF s # << >> /\ s[1] \in Whitespace THEN LStrip(Tail(s)) ELSE s
Strip(s) == Reverse(LStrip(Reverse(LStrip(s))))

(***************************************************************************)
(* smtp_authenticator, src/app.py:179-217                                  *)
(***************************************************************************)
\* os.environ.get(name, 'admin')
valid_username == DictGet(environ, "SMTP_USERNAME", admin)
valid_password == DictGet(environ, "SMTP_PASSWORD", admin)

fail_nothandled == [success |-> FALSE, handled |-> FALSE]
AuthSuccess     == [success |-> TRUE, handled |-> TRUE]

LoginPassword(login, password) ==
    [type |-> "LoginPassword", login |-> login, password |-> password]
\* what a custom mechanism hands over: not a LoginPassword
OtherAuthData == [type |-> "other", login |-> Str(<< >>), password |-> Str(<< >>)]

\* x.decode('utf-8') if isinstance(x, bytes) else x
DecodeIfBytes(x) == IF x.t = "bytes" THEN Utf8Decode(x.v) ELSE [ok |-> TRUE, v |-> x.v]

smtp_authenticator_any_mechanism(mechanism, auth_data) ==
    IF auth_data.type # "LoginPassword" THEN fail_nothandled
    ELSE LET username == DecodeIfBytes(auth_data.login)
             password == DecodeIfBytes(auth_data.password)
         IN  IF ~username.ok \/ ~password.ok THEN fail_nothandled
             ELSE IF username.v = valid_username /\ password.v = valid_password
                  THEN AuthSuccess
                  ELSE fail_nothandled
smtp_authenticator(mechanism, auth_data) ==
    IF mechanism \notin { "LOGIN", "PLAIN" } THEN fail_nothandled
    ELSE IF auth_data.type # "LoginPassword" THEN fail_nothandled
    ELSE LET username == DecodeIfBytes(auth_data.login)
             password == DecodeIfBytes(auth_data.password)
         IN  IF ~username.ok \/ ~password.ok
             THEN \* the decode raised: except branch, lines 215-217
                  fail_nothandled
             ELSE IF username.v = valid_username /\ password.v = valid_password
                  THEN AuthSuccess
                  ELSE fail_nothandled

(***************************************************************************)
(* E-mail messages (envelope.content as message_from_bytes parses it).     *)
(***************************************************************************)
\* A header value: plain text, or one RFC 2047 encoded word.
Plain(text)             == [kind |-> "plain", charset |-> "", v |-> text]
Encoded(charset, bytes) == [kind |-> "encoded", charset |-> charset, v |-> bytes]

\* The codecs the model knows; any other name raises LookupError.
KnownCharsets == { "", "utf-8" }

\* CustomSMTPHandler._decode_header, src/app.py:127-141
\* ok = FALSE stands for the LookupError of bytes.decode(encoding, ...).
_decode_header_undecoded(header_value) == [ok |-> TRUE, v |-> header_value.v]
_decode_header(header_value) ==
    IF header_value.v = << >> THEN [ok |-> TRUE, v |-> << >>]
    ELSE IF header_value.kind = "plain" THEN [ok |-> TRUE, v |-> header_value.v]
    ELSE IF header_value.charset \in KnownCharsets
         THEN [ok |-> TRUE, v |-> Utf8DecodeReplace(header_value.v)]
         ELSE [ok |-> FALSE, v |-> << >>]

\* payload.decode(charset, errors='replace') of one part, lines 160-165 / 169-174
DecodePart(part) ==
    IF part.payload = << >> THEN << >>
    ELSE IF (part.charset \in KnownCharsets)
         THEN Utf8DecodeReplace(part.payload)
         ELSE \* LookupError, caught and logged: the part adds nothing
              << >>

RECURSIVE WalkParts(_, _)
WalkParts(parts, i) ==
    IF i > Len(parts) THEN << >>
    ELSE IF Contains(attachment, parts[i].disposition) THEN WalkParts(parts, i + 1)
    ELSE IF parts[i].ctype \in { "text/plain", "text/html" }
         THEN DecodePart(parts[i]) \o WalkParts(parts, i + 1)
         ELSE WalkParts(parts, i + 1)

\* CustomSMTPHandler._get_email_body, src/app.py:143-176
_get_email_body_unstripped(message) ==
    IF message.multipart
    THEN WalkParts(message.parts, 1)
    ELSE DecodePart(message.parts[1])
_get_email_body(message) ==
    IF message.multipart
    THEN Strip(WalkParts(message.parts, 1))
    ELSE Strip(DecodePart(message.parts[1]))

TextPart(payload) ==
    [ctype |-> "text/plain", disposition |-> << >>, payload |-> payload,
     charset |-> "utf-8"]

Messages ==
    { \* Subject: A / From: Bob / body "hi"
      [mail_from |-> << 115 >>, multipart |-> FALSE,
       headers |-> ("Subject" :> Plain(<< 65 >>)) @@ ("From" :> Plain(<< 66, 111, 98 >>)),
       parts |-> << TextPart(<< 104, 105 >>) >>],
      \* no Subject, no From, body " hi "
      [mail_from |-> << 115 >>, multipart |-> FALSE,
       headers |-> EmptyDict,
       parts |-> << TextPart(<< 32, 104, 105, 32 >>) >>],
      \* Subject: =?x-unknown?b?...?=
      [mail_from |-> << 115 >>, multipart |-> FALSE,
       headers |-> ("Subject" :> Encoded("x-unknown", << 65 >>)),
       parts |-> << TextPart(<< 104, 105 >>) >>] }

\* One part of a multipart message as message.walk() yields it.
Part(ctype, disposition, payload, charset) ==
    [ctype |-> ctype, disposition |-> disposition, payload |-> payload,
     charset |-> charset]
\* The multipart container itself, the first thing walk() yields.
Container == Part("multipart/mixed", << >>, << >>, "")
\* 'inline'
inline == << 105, 110, 108, 105, 110, 101 >>
\* 'ATTACHMENT', the disposition as some clients spell it
ATTACHMENT == << 65, 84, 84, 65, 67, 72, 77, 69, 78, 84 >>

\* Multipart messages, as test_email.py:100-108 builds them and with
\* attachments, and Subject headers in RFC 2047 encoded words.
MultipartMessages ==
    { \* Subject: =?utf-8?b?w6k=?= ; text/plain "p " and text/html " h\n"
      [mail_from |-> << 115 >>, multipart |-> TRUE,
       headers |-> ("Subject" :> Encoded("utf-8", << 195, 169 >>)),
       parts |-> << Container,
                    Part("text/plain", << >>, << 112, 32 >>, "utf-8"),
                    Part("text/html", << >>, << 32, 104, 10 >>, "utf-8") >>],
      \* Subject: (empty) ; text/plain " p", an attached text file "x", a pdf
      [mail_from |-> << 115 >>, multipart |-> TRUE,
       headers |-> ("Subject" :> Plain(<< >>)),
       parts |-> << Container,
                    Part("text/plain", << >>, << 32, 112 >>, ""),
                    Part("text/plain", attachment, << 120 >>, "utf-8"),
                    Part("application/pdf", attachment, << 37 >>, "") >>],
      \* Subject with an undecodable byte ; text/plain "p", a text part
      \* with Content-Disposition: ATTACHMENT, a text part in an unknown
      \* charset
      [mail_from |-> << 115 >>, multipart |-> TRUE,
       headers |-> ("Subject" :> Encoded("", << 65, 255 >>)),
       parts |-> << Container,
                    Part("text/plain", << >>, << 112 >>, "utf-8"),
                    Part("text/plain", ATTACHMENT, << 120 >>, "utf-8"),
                    Part("text/plain", << >>, << 121 >>, "x-unknown") >>],
      \* no Subject ; text/plain "p", an inline text/html "h", an empty part
      [mail_from |-> << 115 >>, multipart |-> TRUE,
       headers |-> ("From" :> Plain(<< 66, 111, 98 >>)),
       parts |-> << Container,
                    Part("text/plain", << >>, << 112 >>, "utf-8"),
                    Part("text/html", inline, << 104 >>, "utf-8"),
                    Part("text/plain", << >>, << >>, "utf-8") >>] }

\* Every message the mail clients of the model send.
MailMessages == Messages \cup MultipartMessages

(***************************************************************************)
(* SMTP sessions.  The protocol engine (aiosmtpd) is configured by         *)
(* run_smtp_server, src/app.py:231-238; its session automaton is the one   *)
(* the design document gives for MailIngestService.                        *)
(***************************************************************************)
\* line 236
auth_required_off == FALSE
auth_required == TRUE

NewSession == [state |-> "Connected", authenticated |-> FALSE]

\* The loop thread reads the next command of a session when it is not inside
\* handle_DATA.
MaySpeak(sched) == loop.pc = "idle" /\ (sched.serial => Quiescent)

EHLO(sched, s) ==
    /\ MaySpeak(sched)
    /\ session[s].state = "Connected"
    /\ session' = [session EXCEPT ![s].state = "Greeted"]
    /\ smtp_reply' = [cmd |-> "EHLO", session |-> s, code |-> 250]
    /\ UNCHANGED << alert_vars, email_vars, environ, http, response, loop, ops >>

AUTH(sched, s, mechanism, auth_data) ==
    /\ MaySpeak(sched)
    /\ session[s].state = "Greeted"
    /\ LET result == smtp_authenticator(mechanism, auth_data)
       IN  /\ session' = IF result.success
                         THEN [session EXCEPT ![s] =
                                 [state |-> "Authenticated", authenticated |-> TRUE]]
                         ELSE session
           /\ smtp_reply' = [cmd |-> "AUTH", session |-> s,
                             code |-> IF result.success THEN 235 ELSE 535,
                             mechanism |-> mechanism, auth_data |-> auth_data,
                             result |-> result]
    /\ UNCHANGED << alert_vars, email_vars, environ, http, response, loop, ops >>

QUIT(sched, s) ==
    /\ MaySpeak(sched)
    /\ session[s].state # "Closed"
    /\ session' = [session EXCEPT ![s].state = "Closed"]
    /\ smtp_reply' = [cmd |-> "QUIT", session |-> s, code |-> 221]
    /\ UNCHANGED << alert_vars, email_vars, environ, http, response, loop, ops >>

(***************************************************************************)
(* CustomSMTPHandler.handle_DATA, src/app.py:67-125                        *)
(***************************************************************************)
DataReply(s, code) == [cmd |-> "DATA", session |-> s, code |-> code]

\* lines 121-125: return '550 Error processing message'
ErrorReplyAccepting(s) == DataReply(s, 250)
ErrorReply(s) == DataReply(s, 550)

\* The engine lets the transaction of session s through to handle_DATA.
EngineAccepts(s) == auth_required => session[s].authenticated

\* handle_DATA is a coroutine of the one event loop and has no await
\* (lines 67-125): the loop takes up the next session's message only when
\* the call in hand has returned.
AlwaysFree == TRUE
LoopFree == loop.pc = "idle"

\* MAIL FROM, RCPT TO, DATA of session s.  The engine refuses the
\* transaction before EHLO and, with auth_required, before AUTH; otherwise
\* it calls handle_DATA: lines 79-90 parse the message, line 93 reads
\* email_stats['total_received'].
mail_transaction(sched, s, message) ==
    /\ MayStart(sched)
    /\ LoopFree
    /\ session[s].state \in { "Greeted", "Authenticated", "MessageReceived" }
    /\ ops' = ops + 1
    /\ IF ~EngineAccepts(s)
       THEN /\ smtp_reply' = DataReply(s, 530)
            /\ UNCHANGED << session, loop, email_rejects >>
       ELSE LET subject == _decode_header(
                               DictGet(message.headers, "Subject", Plain(NoSubject)))
                sender  == _decode_header(
                               DictGet(message.headers, "From", Plain(message.mail_from)))
            IN  IF ~subject.ok \/ ~sender.ok
                THEN \* except branch, lines 121-125
                     /\ smtp_reply' = ErrorReply(s)
                     /\ session' = [session EXCEPT ![s].state = "MessageReceived"]
                     /\ email_rejects' = email_rejects + 1
                     /\ UNCHANGED loop
                ELSE /\ loop' = [pc |-> "hd93w", session |-> s, message |-> message,
                                 sender |-> sender.v, subject |-> subject.v,
                                 body |-> _get_email_body(message), id |-> 0,
                                 tmp |-> email_stats.total_received]
                     /\ session' = IF session[s].state = "MessageReceived"
                                   THEN [session EXCEPT ![s].state = "Authenticated"]
                                   ELSE session
                     /\ UNCHANGED << smtp_reply, email_rejects >>
    /\ UNCHANGED << alert_vars, emails_store, email_stats, email_ids, email_cleared,
                    emails_appended, environ, http, response >>

\* line 93: email_stats['total_received'] += 1, the store of the sum.
hd_store_total ==
    /\ loop.pc = "hd93w"
    /\ email_stats' = [email_stats EXCEPT !.total_received = loop.tmp + 1]
    /\ loop' = [loop EXCEPT !.pc = "hd97", !.tmp = 0]
    /\ UNCHANGED << alert_vars, emails_store, email_ids, email_rejects, email_cleared,
                    emails_appended, environ, http, response, session, smtp_reply, ops >>

\* line 97: 'id': email_stats['total_received']
hd_read_id ==
    /\ loop.pc = "hd97"
    /\ loop' = [loop EXCEPT !.pc = "hd107", !.id = email_stats.total_received]
    /\ UNCHANGED << alert_vars, email_vars, environ, http, response, session,
                    smtp_reply, ops >>

EmailData(l) ==
    [id |-> l.id, from |-> l.sender, subject |-> l.subject, body |-> l.body,
     received_from_ip |-> l.session]

\* line 107: emails_store.append(email_data)
hd_append ==
    /\ loop.pc = "hd107"
    /\ emails_store' = DequeAppend(emails_store, EmailData(loop))
    /\ emails_appended' = Append(emails_appended, EmailData(loop))
    /\ loop' = [loop EXCEPT !.pc = "hd110r"]
    /\ UNCHANGED << alert_vars, email_stats, email_ids, email_rejects, email_cleared,
                    environ, http, response, session, smtp_reply, ops >>

\* line 110: read email_stats['by_sender'].get(sender, 0)
hd_load_sender ==
    /\ loop.pc = "hd110r"
    /\ loop' = [loop EXCEPT !.pc = "hd110w",
                            !.tmp = DictGet(email_stats.by_sender, loop.sender, 0)]
    /\ UNCHANGED << alert_vars, email_vars, environ, http, response, session,
                    smtp_reply, ops >>

\* line 110: email_stats['by_sender'][sender] = ... + 1
hd_store_sender ==
    /\ loop.pc = "hd110w"
    /\ email_stats' = [email_stats EXCEPT !.by_sender =
                          DictSet(@, loop.sender, loop.tmp + 1)]
    /\ loop' = [loop EXCEPT !.pc = "hd111r", !.tmp = 0]
    /\ UNCHANGED << alert_vars, emails_store, email_ids, email_rejects, email_cleared,
                    emails_appended, environ, http, response, session, smtp_reply, ops >>

\* line 111: read email_stats['by_subject'].get(subject, 0)
hd_load_subject ==
    /\ loop.pc = "hd111r"
    /\ loop' = [loop EXCEPT !.pc = "hd111w",
                            !.tmp = DictGet(email_stats.by_subject, loop.subject, 0)]
    /\ UNCHANGED << alert_vars, email_vars, environ, http, response, session,
                    smtp_reply, ops >>

\* line 111: email_stats['by_subject'][subject] = ... + 1; line 119: return '250 ...'
hd_store_subject ==
    /\ loop.pc = "hd111w"
    /\ email_stats' = [email_stats EXCEPT !.by_subject =
                          DictSet(@, loop.subject, loop.tmp + 1)]
    /\ smtp_reply' = DataReply(loop.session, 250) @@ [id |-> loop.id]
    /\ session' = [session EXCEPT ![loop.session].state = "MessageReceived"]
    /\ email_ids' = Append(email_ids, loop.id)
    /\ loop' = IdleLoop
    /\ UNCHANGED << alert_vars, emails_store, email_rejects, email_cleared,
                    emails_appended, environ, http, response, ops >>

(***************************************************************************)
(* POST /api/emails/clear : clear_emails, src/app.py:498-521               *)
(***************************************************************************)
\* line 505: emails_store.clear()
clear_emails(sched, w) ==
    /\ MayStart(sched)
    /\ FreeThread(w)
    /\ ops' = ops + 1
    /\ emails_store' = << >>
    /\ emails_appended' = << >>
    /\ email_ids' = << >>
    /\ email_rejects' = 0
    /\ email_cleared' = TRUE
    /\ http' = [http EXCEPT ![w].pc = "ce508"]
    /\ UNCHANGED << alert_vars, email_stats, smtp_vars, environ, response >>

\* line 508: email_stats['total_received'] = 0
ce_reset_total_of_alerts(w) ==
    /\ http[w].pc = "ce508"
    /\ alert_stats' = [alert_stats EXCEPT !.total_received = 0]
    /\ http' = [http EXCEPT ![w].pc = "ce509"]
    /\ UNCHANGED << alerts_store, alert_ids, alert_rejects, alert_cleared,
                    alerts_appended, email_vars, smtp_vars, environ, response, ops >>
ce_reset_total(w) ==
    /\ http[w].pc = "ce508"
    /\ email_stats' = [email_stats EXCEPT !.total_received = 0]
    /\ http' = [http EXCEPT ![w].pc = "ce509"]
    /\ UNCHANGED << alert_vars, emails_store, email_ids, email_rejects, email_cleared,
                    emails_appended, smtp_vars, environ, response, ops >>

\* line 509: email_stats['by_sender'].clear()
ce_clear_sender(w) ==
    /\ http[w].pc = "ce509"
    /\ email_stats' = [email_stats EXCEPT !.by_sender = EmptyDict]
    /\ http' = [http EXCEPT ![w].pc = "ce510"]
    /\ UNCHANGED << alert_vars, emails_store, email_ids, email_rejects, email_cleared,
                    emails_appended, smtp_vars, environ, response, ops >>

\* line 510: email_stats['by_subject'].clear(); lines 512-515: return.
ce_clear_subject(w) ==
    /\ http[w].pc = "ce510"
    /\ email_stats' = [email_stats EXCEPT !.by_subject = EmptyDict]
    /\ Return(w, [op |-> "clear_emails", status |-> 200, error |-> FALSE])
    /\ UNCHANGED << alert_vars, emails_store, email_ids, email_rejects, email_cleared,
                    emails_appended, smtp_vars, environ, ops >>

(***************************************************************************)
(* GET /api/emails, /api/emails/stats : src/app.py:438-495                 *)
(***************************************************************************)
\* request.args.get('sender', None) when the parameter is absent
NoSender == << >>

\* lines 445-472.  The record is the reply together with the sender
\* parameter of the request it answers (line 447).
get_emails_result(store, limit, offset, sender_filter) ==
    LET keep == IF sender_filter = NoSender
                THEN { store[i] : i \in 1..Len(store) }
                ELSE { r \in { store[i] : i \in 1..Len(store) } :
                         Contains(Lower(sender_filter), Lower(r.from)) }
        emails_list == Reverse(SelectSeqIdx(store, keep, 1))
    IN  [op |-> "get_emails", status |-> 200, error |-> FALSE,
         emails |-> PySlice(emails_list, offset, offset + limit),
         total |-> Len(emails_list), offset |-> offset, limit |-> limit,
         sender |-> sender_filter]

get_emails(sched, w, limit, offset, sender_filter) ==
    /\ MayStart(sched)
    /\ FreeThread(w)
    /\ ops' = ops + 1
    /\ Return(w, get_emails_result(emails_store, limit, offset, sender_filter))
    /\ UNCHANGED << alert_vars, email_vars, smtp_vars, environ >>

\* lines 482-489
get_email_stats(sched, w) ==
    /\ MayStart(sched)
    /\ FreeThread(w)
    /\ ops' = ops + 1
    /\ Return(w, [op |-> "get_email_stats", status |-> 200, error |-> FALSE,
                  stats |-> email_stats])
    /\ UNCHANGED << alert_vars, email_vars, smtp_vars, environ >>

(***************************************************************************)
(* The program.                                                            *)
(***************************************************************************)
\* src/app.py:35-56: the stores, the aggregates and the idle threads.
InitData ==
    /\ alerts_store = << >>
    /\ alert_stats = [total_received |-> 0, by_severity |-> EmptyDict,
                      by_type |-> EmptyDict]
    /\ emails_store = << >>
    /\ email_stats = [total_received |-> 0, by_sender |-> EmptyDict,
                      by_subject |-> EmptyDict]
    /\ http = [w \in Workers |-> IdleThread]
    /\ response = NoResponse
    /\ loop = IdleLoop
    /\ smtp_reply = NoReply
    /\ ops = 0
    /\ alert_ids = << >>
    /\ alert_rejects = 0
    /\ alert_cleared = FALSE
    /\ alerts_appended = << >>
    /\ email_ids = << >>
    /\ email_rejects = 0
    /\ email_cleared = FALSE
    /\ emails_appended = << >>

\* The sessions as they connect.
InitState == InitData /\ session = [s \in Sessions |-> NewSession]

\* The process started without SMTP_USERNAME / SMTP_PASSWORD set.
Init == InitState /\ environ = EmptyDict

\* Query parameters and credentials the clients of Spec and SpecSeq send.
Limits   == { 100 }
Offsets  == { 0 }
Severities == { "CRITICAL" }
Senders  == { << 98 >> }
Mechanisms == { "LOGIN" }
Credentials == { LoginPassword(Bytes(admin), Bytes(admin)),
                 LoginPassword(Bytes(admin), Bytes(<< 120 >>)) }

\* The steps inside the handlers: the same under every scheduling.
AlertSteps ==
    \/ \E w \in Workers : ra_store_total(w)
    \/ \E w \in Workers : ra_read_id(w)
    \/ \E w \in Workers : ra_append(w)
    \/ \E w \in Workers : ra_load_severity(w)
    \/ \E w \in Workers : ra_store_severity(w)
    \/ \E w \in Workers : ra_load_type(w)
    \/ \E w \in Workers : ra_store_type(w)

AlertClearSteps ==
    \/ \E w \in Workers : ca_reset_total(w)
    \/ \E w \in Workers : ca_clear_severity(w)
    \/ \E w \in Workers : ca_clear_type(w)

EmailClearSteps ==
    \/ \E w \in Workers : ce_reset_total(w)
    \/ \E w \in Workers : ce_clear_sender(w)
    \/ \E w \in Workers : ce_clear_subject(w)

ClearSteps == AlertClearSteps \/ EmailClearSteps

MailSteps ==
    \/ hd_store_total
    \/ hd_read_id
    \/ hd_append
    \/ hd_load_sender
    \/ hd_store_sender
    \/ hd_load_subject
    \/ hd_store_subject

Steps == AlertSteps \/ ClearSteps \/ MailSteps

Starts(sched) ==
    \/ \E s \in Sessions : EHLO(sched, s)
    \/ \E s \in Sessions, m \in Mechanisms, c \in Credentials : AUTH(sched, s, m, c)
    \/ \E s \in Sessions : QUIT(sched, s)
    \/ \E w \in Workers, body \in Bodies : receive_alert(sched, w, body)
    \/ \E w \in Workers : clear_alerts(sched, w)
    \/ \E w \in Workers, l \in Limits, o \in Offsets, f \in Severities :
          get_alerts(sched, w, l, o, f)
    \/ \E w \in Workers : get_alert_stats(sched, w)
    \/ \E w \in Workers : health_check(sched, w)
    \/ \E w \in Workers : clear_emails(sched, w)
    \/ \E w \in Workers, l \in Limits, o \in Offsets, f \in Senders :
          get_emails(sched, w, l, o, f)
    \/ \E w \in Workers : get_email_stats(sched, w)
    \/ \E s \in Sessions, m \in Messages : mail_transaction(sched, s, m)

\* The program: Flask threads and the SMTP loop thread interleave.
Next == Starts(Concurrent) \/ Steps
Spec == Init /\ [][Next]_vars

\* One request at a time: each handler runs to its end before the next starts.
SeqNext == Starts(Serial) \/ Steps
SpecSeq == Init /\ [][SeqNext]_vars

\* The authentication exchange alone, over every mechanism and every kind of
\* credentials a client may present, against either configuration.
Environs ==
    { EmptyDict,
      ("SMTP_USERNAME" :> << 233 >>) @@ ("SMTP_PASSWORD" :> << 112 >>) }
AnyMechanism == { "LOGIN", "PLAIN", "CRAM-MD5", "login" }
AnyLogin ==
    { Bytes(admin), Str(admin), Bytes(<< 97 >>), Bytes(<< 195, 169 >>),
      Bytes(<< 233 >>), Str(<< 233 >>) }
AnyPassword == { Bytes(admin), Bytes(<< 112 >>), Bytes(<< 255 >>) }
AnyCredentials ==
    { LoginPassword(l, p) : l \in AnyLogin, p \in AnyPassword } \cup { OtherAuthData }

AuthInit == InitState /\ environ \in Environs
AuthNext ==
    \/ \E s \in Sessions : EHLO(Serial, s)
    \/ \E s \in Sessions, m \in AnyMechanism, c \in AnyCredentials :
          AUTH(Serial, s, m, c)
    \/ \E s \in Sessions : QUIT(Serial, s)
SpecAuth == AuthInit /\ [][AuthNext]_vars

\* The list endpoints, one request at a time, on stores that ingestion alone
\* has filled: pages of one record, of the whole store and of the default
\* size, a zero and a negative limit, from the newest record or from beyond
\* the oldest, with and without a filter.
QueryLimits  == { -1, 0, 1, maxlen, 100 }
QueryOffsets == { 0, maxlen }
QuerySeverities == { NoFilter, "CRITICAL" }
QuerySenders == { NoSender, << 66, 79 >> }
\* Every session has greeted and authenticated.
QueryInit ==
    /\ InitData
    /\ environ = EmptyDict
    /\ session = [s \in Sessions |-> [state |-> "Authenticated", authenticated |-> TRUE]]
QueryNext ==
    \/ \E w \in Workers, body \in Bodies : receive_alert(Serial, w, body)
    \/ \E w \in Workers, l \in QueryLimits, o \in QueryOffsets, f \in QuerySeverities :
          get_alerts(Serial, w, l, o, f)
    \/ \E w \in Workers : get_alert_stats(Serial, w)
    \/ \E w \in Workers, l \in QueryLimits, o \in QueryOffsets, f \in QuerySenders :
          get_emails(Serial, w, l, o, f)
    \/ \E s \in Sessions, m \in Messages : mail_transaction(Serial, s, m)
    \/ AlertSteps
    \/ MailSteps
SpecQuery == QueryInit /\ [][QueryNext]_vars

\* Both channels with their clears and reads, one request at a time, on
\* sessions that have authenticated.
StoresNext ==
    \/ \E w \in Workers, body \in Bodies : receive_alert(Serial, w, body)
    \/ \E w \in Workers : clear_alerts(Serial, w)
    \/ \E w \in Workers, l \in Limits, o \in Offsets, f \in Severities :
          get_alerts(Serial, w, l, o, f)
    \/ \E w \in Workers : get_alert_stats(Serial, w)
    \/ \E w \in Workers : clear_emails(Serial, w)
    \/ \E w \in Workers, l \in Limits, o \in Offsets, f \in Senders :
          get_emails(Serial, w, l, o, f)
    \/ \E w \in Workers : get_email_stats(Serial, w)
    \/ \E s \in Sessions, m \in Messages : mail_transaction(Serial, s, m)
    \/ Steps
SpecStores == QueryInit /\ [][StoresNext]_vars

\* Both channels with every query operation, one request at a time.
ReadsNext ==
    \/ \E w \in Workers, body \in Bodies : receive_alert(Serial, w, body)
    \/ \E s \in Sessions, m \in Messages : mail_transaction(Serial, s, m)
    \/ \E w \in Workers, l \in QueryLimits, o \in QueryOffsets, f \in QuerySeverities :
          get_alerts(Serial, w, l, o, f)
    \/ \E w \in Workers, l \in QueryLimits, o \in QueryOffsets, f \in QuerySenders :
          get_emails(Serial, w, l, o, f)
    \/ \E w \in Workers : get_alert_stats(Serial, w)
    \/ \E w \in Workers : get_email_stats(Serial, w)
    \/ \E w \in Workers : health_check(Serial, w)
    \/ AlertSteps
    \/ MailSteps
SpecReads == QueryInit /\ [][ReadsNext]_vars

\* Several authenticated sessions deliver to the one event loop while a
\* Flask thread reads the statistics; no clear runs.
OpenSessions == 1..(NumSessions + 1)
LoopInit ==
    /\ InitData
    /\ environ = EmptyDict
    /\ session = [s \in OpenSessions |-> [state |-> "Authenticated", authenticated |-> TRUE]]
LoopNext ==
    \/ \E s \in OpenSessions, m \in Messages : mail_transaction(Concurrent, s, m)
    \/ \E w \in Workers : get_email_stats(Concurrent, w)
    \/ MailSteps
SpecLoop == LoopInit /\ [][LoopNext]_vars

\* The alert channel alone, one request at a time, over payloads with every
\* combination of the severity, alertType and type keys.
KeyedBodies ==
    { JsonObject([k \in keys |-> IF k = "severity" THEN "INFO"
                                  ELSE IF k = "alertType" THEN "BROKER_DOWN"
                                  ELSE "LAG"]) :
        keys \in SUBSET { "severity", "alertType", "type" } }
AlertBodies == Bodies \cup KeyedBodies
AlertsNext ==
    \/ \E w \in Workers, body \in AlertBodies : receive_alert(Serial, w, body)
    \/ \E w \in Workers : clear_alerts(Serial, w)
    \/ \E w \in Workers : get_alert_stats(Serial, w)
    \/ AlertSteps
    \/ AlertClearSteps
SpecAlerts == Init /\ [][AlertsNext]_vars

\* The mail channel alone, one transaction at a time, over every kind of
\* message.
MailNext ==
    \/ \E s \in Sessions : EHLO(Serial, s)
    \/ \E s \in Sessions, m \in Mechanisms, c \in Credentials : AUTH(Serial, s, m, c)
    \/ \E s \in Sessions, m \in MailMessages : mail_transaction(Serial, s, m)
    \/ \E s \in Sessions : QUIT(Serial, s)
    \/ MailSteps
SpecMail == Init /\ [][MailNext]_vars

(***************************************************************************)
(* Properties.                                                             *)
(***************************************************************************)
Range(f) == { f[x] : x \in DOMAIN f }
Ids(store) == { store[i].id : i \in 1..Len(store) }

\* C1: when several callers ingest alerts concurrently, all succeed and no
\* clear runs, n calls (n within capacity) leave exactly n records stored,
\* total_received = n, and the assigned ids are pairwise distinct and are
\* exactly 1..n.
C1_ConcurrentIngestionExact ==
    (/\ Quiescent
     /\ ~alert_cleared
     /\ alert_rejects = 0
     /\ Len(alert_ids) <= maxlen)
    => LET n == Len(alert_ids)
       IN  /\ Len(alerts_store) = n
           /\ alert_stats.total_received = n
           /\ Range(alert_ids) = 1..n
           /\ Ids(alerts_store) = 1..n
           /\ \A i, j \in 1..n : i # j => alert_ids[i] # alert_ids[j]

\* The labels under which a stored alert is counted.
StoredWithSeverity(label) ==
    { i \in 1..Len(alerts_store) :
        IsDict(alerts_store[i].data) /\ SeverityOf(alerts_store[i].data) = label }
StoredWithType(label) ==
    { i \in 1..Len(alerts_store) :
        IsDict(alerts_store[i].data) /\ AlertTypeOf(alerts_store[i].data) = label }
StoredFrom(sender) == { i \in 1..Len(emails_store) : emails_store[i].from = sender }
StoredAbout(subject) == { i \in 1..Len(emails_store) : emails_store[i].subject = subject }
SeverityLabels == { "UNKNOWN", "CRITICAL", "WARNING" }
TypeLabels == { "UNKNOWN", "BROKER_DOWN", "LAG" }

AlertPairAgrees ==
    /\ Len(alerts_store) = alert_stats.total_received
    /\ \A i \in 1..Len(alerts_store) : IsDict(alerts_store[i].data)
    /\ \A l \in SeverityLabels \cup DOMAIN alert_stats.by_severity :
          Cardinality(StoredWithSeverity(l)) = DictGet(alert_stats.by_severity, l, 0)
    /\ \A l \in TypeLabels \cup DOMAIN alert_stats.by_type :
          Cardinality(StoredWithType(l)) = DictGet(alert_stats.by_type, l, 0)
EmailPairAgrees ==
    /\ Len(emails_store) = email_stats.total_received
    /\ \A l \in { emails_store[i].from : i \in 1..Len(emails_store) }
                \cup DOMAIN email_stats.by_sender :
          Cardinality(StoredFrom(l)) = DictGet(email_stats.by_sender, l, 0)
    /\ \A l \in { emails_store[i].subject : i \in 1..Len(emails_store) }
                \cup DOMAIN email_stats.by_subject :
          Cardinality(StoredAbout(l)) = DictGet(email_stats.by_subject, l, 0)

\* C2: in every state a reader can observe, the store and its aggregate
\* agree for each ingested record: a stored record is counted in
\* total_received and in its per-category counts, and a counted record is
\* stored (stated while nothing has been evicted or cleared, when "counted"
\* and "stored" are the same records).
C2_StoreAndAggregateAgree ==
    /\ (~alert_cleared /\ Len(alerts_appended) <= maxlen) => AlertPairAgrees
    /\ (~email_cleared /\ Len(emails_appended) <= maxlen) => EmailPairAgrees

\* C3: with no clear in between, the k-th successful ingestion is assigned
\* id k; a rejected ingestion does not consume an id.
C3_SuccessfulIdsAreGapFree ==
    \A k \in 1..Len(alert_ids) : alert_ids[k] = k

\* A step of thread w inside a receive_alert whose body is not a JSON object.
NonObjectStep(w) ==
    /\ http'[w] # http[w]
    /\ \/ http[w].pc = "idle" /\ http'[w].pc = "ra311w" /\ ~IsDict(http'[w].alert_data)
       \/ http[w].pc \in { "ra311w", "ra315", "ra322", "ra325" }
             /\ ~IsDict(http[w].alert_data)

\* C4: a receive_alert whose body is not a JSON object is answered with an
\* error and leaves alerts_store and alert_stats exactly as they were.
C4_RejectedBodyMutatesNothing ==
    [][ \A w \in Workers :
          NonObjectStep(w) =>
            /\ UNCHANGED << alerts_store, alert_stats >>
            /\ (http'[w].pc = "idle" => response'.status = 500) ]_vars

\* The last n elements of a sequence.
LastN(s, n) == IF Len(s) <= n THEN s ELSE SubSeq(s, Len(s) - n + 1, Len(s))

\* C5: each store holds at most maxlen records in every reachable state;
\* appending to a full store evicts the oldest record, so the store is the
\* most recently appended records in insertion order.
C5_StoreIsBoundedFifo ==
    /\ Len(alerts_store) <= maxlen
    /\ Len(emails_store) <= maxlen
    /\ alerts_store = LastN(alerts_appended, maxlen)
    /\ emails_store = LastN(emails_appended, maxlen)

\* An append to a full alerts_store has evicted its oldest record.
C5_Witness ==
    /\ Len(alerts_appended) = maxlen + 1
    /\ Len(alerts_store) = maxlen
    /\ alerts_store[1] = alerts_appended[2]

\* C6: after N successful ingestions on a channel with no clear,
\* total_received equals N, also for N greater than the capacity, while
\* the store holds min(N, maxlen) records.
C6_TotalCountsSuccesses ==
    /\ (Quiescent /\ ~alert_cleared) =>
          /\ alert_stats.total_received = Len(alert_ids)
          /\ Len(alerts_store) = Min(Len(alert_ids), maxlen)
    /\ (Quiescent /\ ~email_cleared) =>
          /\ email_stats.total_received = Len(email_ids)
          /\ Len(emails_store) = Min(Len(email_ids), maxlen)

ZeroAlertStats ==
    [total_received |-> 0, by_severity |-> EmptyDict, by_type |-> EmptyDict]
ZeroEmailStats ==
    [total_received |-> 0, by_sender |-> EmptyDict, by_subject |-> EmptyDict]

\* C7: after clear_alerts (clear_emails), and before any further ingestion
\* attempt, the store is empty and the aggregate is zero; the next successful
\* ingestion on that channel is assigned id 1 and leaves total_received at 1.
C7_ClearRestartsIds ==
    /\ (Quiescent /\ alert_cleared /\ alert_ids = << >> /\ alert_rejects = 0
           /\ alerts_appended = << >>) =>
          alerts_store = << >> /\ alert_stats = ZeroAlertStats
    /\ (Quiescent /\ email_cleared /\ email_ids = << >> /\ email_rejects = 0
           /\ emails_appended = << >>) =>
          emails_store = << >> /\ email_stats = ZeroEmailStats
    /\ (alert_cleared /\ alert_ids # << >>) => alert_ids[1] = 1
    /\ (Quiescent /\ alert_cleared /\ Len(alert_ids) = 1
           /\ response.op = "receive_alert" /\ response.status = 200) =>
          alert_stats.total_received = 1
    /\ (email_cleared /\ email_ids # << >>) => email_ids[1] = 1
    /\ (Quiescent /\ email_cleared /\ Len(email_ids) = 1
           /\ smtp_reply.cmd = "DATA" /\ smtp_reply.code = 250) =>
          email_stats.total_received = 1

\* C8: clear is one atomic step: the step that empties a store also resets
\* the paired aggregate, so no state has the store emptied by a clear whose
\* aggregate is not yet reset.
C8_ClearIsOneStep ==
    [][ /\ (\E w \in Workers : http[w].pc = "idle" /\ http'[w].pc = "ca418")
            => alert_stats' = ZeroAlertStats
        /\ (\E w \in Workers : http[w].pc = "idle" /\ http'[w].pc = "ce508")
            => email_stats' = ZeroEmailStats ]_vars

SessionTransitions ==
    { << "Connected", "Greeted" >>, << "Greeted", "Authenticated" >>,
      << "Authenticated", "MessageReceived" >>,
      << "MessageReceived", "Authenticated" >>,
      << "Connected", "Closed" >>, << "Greeted", "Closed" >>,
      << "Authenticated", "Closed" >>, << "MessageReceived", "Closed" >> }

\* Every message in handle_DATA or in the store came from a session that
\* had authenticated.
IngestedOnlyWhenAuthenticated ==
    /\ loop.pc # "idle" => session[loop.session].authenticated
    /\ \A i \in 1..Len(emails_appended) :
          session[emails_appended[i].received_from_ip].authenticated
    /\ \A s \in Sessions :
          session[s].state \in { "Authenticated", "MessageReceived" }
             => session[s].authenticated

RECURSIVE Utf8Encode(_)
Utf8Encode(t) ==
    IF t = << >> THEN << >>
    ELSE IF t[1] < 128 THEN << t[1] >> \o Utf8Encode(Tail(t))
    ELSE << 192 + (t[1] \div 64), 128 + (t[1] % 64) >> \o Utf8Encode(Tail(t))

\* The supplied value is the configured string.
SameString(supplied, configured) ==
    IF supplied.t = "bytes" THEN supplied.v = Utf8Encode(configured)
    ELSE supplied.v = configured

\* C10: smtp_authenticator accepts exactly when the mechanism is LOGIN or
\* PLAIN and the supplied username and password both equal the configured
\* pair; for any other mechanism the result is the same rejection whatever
\* the credentials.
C10_AuthenticatorDecision ==
    smtp_reply.cmd = "AUTH" =>
       /\ smtp_reply.result.success <=>
             /\ smtp_reply.mechanism \in { "LOGIN", "PLAIN" }
             /\ smtp_reply.auth_data.type = "LoginPassword"
             /\ SameString(smtp_reply.auth_data.login, valid_username)
             /\ SameString(smtp_reply.auth_data.password, valid_password)
       /\ smtp_reply.mechanism \notin { "LOGIN", "PLAIN" }
             => smtp_reply.result = fail_nothandled

\* The configured credentials presented under an unsupported mechanism.
C10_Witness ==
    /\ smtp_reply.cmd = "AUTH"
    /\ smtp_reply.mechanism = "CRAM-MD5"
    /\ smtp_reply.auth_data.type = "LoginPassword"
    /\ SameString(smtp_reply.auth_data.login, valid_username)
    /\ SameString(smtp_reply.auth_data.password, valid_password)
    /\ ~smtp_reply.result.success

\* A step of handle_DATA through its except branch.
RejectStep == email_rejects' = email_rejects + 1

\* What C11 says of a rejected message and of the messages after it, with
\* the reply codes a rejection may carry left open.
MessageDropped(codes) ==
    RejectStep =>
        /\ smtp_reply'.cmd = "DATA"
        /\ smtp_reply'.code \in codes
        /\ UNCHANGED << emails_store, email_stats, emails_appended, email_ids >>
        /\ loop' = IdleLoop
        /\ session'[smtp_reply'.session].authenticated
        /\ session'[smtp_reply'.session].state = "MessageReceived"

AcceptedAfterReject ==
    /\ email_rejects > 0
    /\ ~email_cleared
    /\ loop = IdleLoop
    /\ smtp_reply.cmd = "DATA"
    /\ smtp_reply.code = 250
    => /\ emails_store # << >>
       /\ emails_store[Len(emails_store)].id = smtp_reply.id
       /\ smtp_reply.id = Len(email_ids)
       /\ email_stats.total_received = Len(email_ids)

\* The 4yz replies of SMTP, "transient negative completion".
TransientReplies == 400..499

\* C11 as stated: a message whose processing raises is answered with a
\* transient rejection, is neither stored nor counted, and the messages
\* accepted after it are stored as if it had never been sent.
C11_TransientRejection ==
    [][MessageDropped(TransientReplies)]_vars /\ []AcceptedAfterReject

\* C11, amended: a message whose processing raises is answered with
\* '550 Error processing message' (a permanent rejection, never the
\* acceptance reply), is neither stored nor counted, leaves the session
\* authenticated and open, and the messages accepted after it are stored
\* and numbered as if it had never been sent.
C11_RejectedMessageDropped ==
    [][MessageDropped({ 550 })]_vars /\ []AcceptedAfterReject

\* A message was rejected and a later one of the same run was accepted.
C11_Witness ==
    /\ email_rejects > 0
    /\ loop = IdleLoop
    /\ smtp_reply.cmd = "DATA"
    /\ smtp_reply.code = 250
    /\ emails_store # << >>

\* The positions inside the alert handlers and inside clear_emails.
AlertPcs == { "ra311w", "ra315", "ra322", "ra325", "ra326w", "ra330r", "ra330w",
              "ca418", "ca419", "ca420" }
EmailPcs == { "ce508", "ce509", "ce510" }
AlertOps == { "receive_alert", "get_alerts", "get_alert_stats", "clear_alerts" }
EmailOps == { "get_emails", "get_email_stats", "clear_emails" }

\* A step taken by an alert operation: a thread enters, moves inside or
\* leaves an alert handler.
AlertOperationStep ==
    \/ \E w \in Workers :
          /\ http'[w] # http[w]
          /\ http[w].pc \in AlertPcs \/ http'[w].pc \in AlertPcs
    \/ response' # response /\ response'.op \in AlertOps

\* A step taken by an e-mail operation, handle_DATA on the loop thread
\* included.
EmailOperationStep ==
    \/ \E w \in Workers :
          /\ http'[w] # http[w]
          /\ http[w].pc \in EmailPcs \/ http'[w].pc \in EmailPcs
    \/ response' # response /\ response'.op \in EmailOps
    \/ loop' # loop
    \/ smtp_reply' # smtp_reply /\ smtp_reply'.cmd = "DATA"

\* C12: every step of an alert operation (ingest, list, stats, clear) leaves
\* emails_store and email_stats, with it the next e-mail id, unchanged, and
\* every step of an e-mail operation leaves alerts_store and alert_stats
\* unchanged.
C12_ChannelsAreIndependent ==
    [][/\ AlertOperationStep => UNCHANGED << emails_store, email_stats >>
       /\ EmailOperationStep => UNCHANGED << alerts_store, alert_stats >>]_vars

\* One channel was cleared while the other holds a record: its id and its
\* counts are still there.
C12_Witness ==
    /\ Quiescent
    /\ response.op = "clear_emails"
    /\ alerts_store # << >>
    /\ alerts_store[1].id = 1
    /\ alert_stats.total_received = 1

\* The paging and filter parameters a client may send with a list request.
AnyLimit    == (-1..(maxlen + 1)) \cup { 100 }
AnyOffset   == -1..(maxlen + 1)
AnySeverity == { NoFilter, "CRITICAL", "WARNING", "UNKNOWN" }
AnySender   == { NoSender, << 98 >>, << 66, 79 >>, << 120 >> }

\* When record r was ingested: its place in the order of the appends.
IngestedAt(appended, r) == CHOOSE k \in 1..Len(appended) : appended[k] = r

\* Of any two records of the page, the one ingested later comes first.
NewestFirst(page, appended) ==
    \A i, j \in 1..Len(page) :
        i < j => IngestedAt(appended, page[i]) > IngestedAt(appended, page[j])

\* The two newest records, newest first: what limit=2 asks for.
TwoNewest(appended) ==
    << appended[Len(appended)], appended[Len(appended) - 1] >>

\* C13: a list reply orders its records newest first, whatever the filter,
\* and after the ingestion of A then B the unfiltered list with limit 2 is
\* [B, A]; the same for both channels.
C13_ListsNewestFirst ==
    /\ \A f \in AnySeverity :
          LET r == get_alerts_result(alerts_store, 100, 0, f)
          IN  r.status = 200 => NewestFirst(r.alerts, alerts_appended)
    /\ \A f \in AnySender :
          NewestFirst(get_emails_result(emails_store, 100, 0, f).emails, emails_appended)
    /\ response.op = "get_alerts" /\ response.status = 200
          => NewestFirst(response.alerts, alerts_appended)
    /\ response.op = "get_emails" => NewestFirst(response.emails, emails_appended)
    /\ Len(alerts_store) >= 2
          => get_alerts_result(alerts_store, 2, 0, NoFilter).alerts
                = TwoNewest(alerts_appended)
    /\ Len(emails_store) >= 2
          => get_emails_result(emails_store, 2, 0, NoSender).emails
                = TwoNewest(emails_appended)

\* A, then B, then the list: the reply is [B, A].
C13_Witness ==
    /\ Quiescent
    /\ Len(alerts_appended) = 2
    /\ response.op = "get_alerts"
    /\ response.status = 200
    /\ response.severity = NoFilter
    /\ response.alerts = << alerts_appended[2], alerts_appended[1] >>

\* The payload of record r carries severity S.
HasSeverity(r, S) ==
    /\ IsDict(r.data)
    /\ "severity" \in DOMAIN r.data.fields
    /\ r.data.fields["severity"] = S

\* The stored records of severity S, newest first.
FilteredNewestFirst(store, S) ==
    Reverse(SelectSeq(store, LAMBDA r : HasSeverity(r, S)))

\* The elements of list at the positions [offset, offset + limit), counted
\* from 0.
Window(list, offset, limit) ==
    [i \in 1..Max(0, Min(Len(list), offset + limit) - offset) |-> list[offset + i]]

\* What C14 says of the reply r to a list request with severity filter S.
FilteredPage(r, store, S) ==
    /\ r.status = 200
    /\ \A i \in 1..Len(r.alerts) : HasSeverity(r.alerts[i], S)
    /\ r.total = Len(FilteredNewestFirst(store, S))
    /\ r.limit >= 0 /\ r.offset >= 0
          => r.alerts = Window(FilteredNewestFirst(store, S), r.offset, r.limit)

\* C14: the reply to a list request with severity filter S has only records
\* of severity exactly S in its page, reports as total the number of stored
\* records of severity S, and its page is the window [offset, offset+limit)
\* of the newest-first list of those records.
C14_FilteredList ==
    /\ Quiescent
    /\ response.op = "get_alerts"
    /\ response.severity # NoFilter
    => FilteredPage(response, alerts_store, response.severity)

\* The same over every paging parameter, for the stores that hold no
\* non-object body.
FilteredListOfObjects ==
    (\A i \in 1..Len(alerts_store) : IsDict(alerts_store[i].data))
    => \A l \in AnyLimit, o \in AnyOffset, S \in AnySeverity \ { NoFilter } :
          FilteredPage(get_alerts_result(alerts_store, l, o, S), alerts_store, S)

\* Every append so far belongs to an ingestion that succeeded, and no clear
\* has run: the run is a sequence of Len(alert_ids) successful ingestions.
OnlySuccessfulIngestions ==
    /\ Quiescent
    /\ ~alert_cleared
    /\ Len(alerts_appended) = Len(alert_ids)

\* C15: after N successful ingestions, N at most the capacity of the store,
\* and no clear, the statistics report total_received = N and the unfiltered
\* list with offset 0 and limit N reports total N and returns all N records.
C15_AllIngestedAreListed ==
    LET N == Len(alert_ids)
        r == get_alerts_result(alerts_store, N, 0, NoFilter)
    IN  OnlySuccessfulIngestions /\ N <= maxlen =>
           /\ alert_stats.total_received = N
           /\ r.status = 200
           /\ r.total = N
           /\ Len(r.alerts) = N
           /\ Range(r.alerts) = Range(alerts_appended)
           /\ response.op = "get_alert_stats" => response.stats.total_received = N
           /\ ( /\ response.op = "get_alerts"
                /\ response.severity = NoFilter
                /\ response.offset = 0
                /\ response.limit = N )
                => /\ response.total = N
                   /\ Range(response.alerts) = Range(alerts_appended)

\* The store filled to its capacity by successful ingestions, then listed
\* with limit = N.
C15_Witness ==
    /\ OnlySuccessfulIngestions
    /\ Len(alert_ids) = maxlen
    /\ response.op = "get_alerts"
    /\ response.severity = NoFilter
    /\ response.offset = 0
    /\ response.limit = maxlen
    /\ Len(response.alerts) = maxlen

\* The filtered count: how many stored records the filter of a list request
\* selects.
AlertCount(store, S) ==
    IF S = NoFilter THEN Len(store)
    ELSE Cardinality({ i \in 1..Len(store) : HasSeverity(store[i], S) })
EmailCount(store, sender) ==
    IF sender = NoSender THEN Len(store)
    ELSE Cardinality({ i \in 1..Len(store) :
                         Contains(Lower(sender), Lower(store[i].from)) })

\* C16: a list request whose offset is at or beyond the filtered count is
\* answered with success, an empty page and total equal to the filtered
\* count; for the alert list and for the e-mail list.
C16_OffsetOutOfRange ==
    /\ ( /\ Quiescent
         /\ response.op = "get_alerts"
         /\ response.offset >= AlertCount(alerts_store, response.severity) )
         => /\ response.status = 200
            /\ response.alerts = << >>
            /\ response.total = AlertCount(alerts_store, response.severity)
    /\ \A l \in AnyLimit, o \in AnyOffset, f \in AnySender :
          o >= EmailCount(emails_store, f)
          => LET r == get_emails_result(emails_store, l, o, f)
             IN  /\ r.status = 200
                 /\ r.emails = << >>
                 /\ r.total = EmailCount(emails_store, f)

\* The same for the alert list over every paging parameter, for the stores
\* that hold no non-object body and for the requests without a filter.
OffsetOutOfRangeOfObjects ==
    \A l \in AnyLimit, o \in AnyOffset, S \in AnySeverity :
       /\ S = NoFilter \/ \A i \in 1..Len(alerts_store) : IsDict(alerts_store[i].data)
       /\ o >= AlertCount(alerts_store, S)
       => LET r == get_alerts_result(alerts_store, l, o, S)
          IN  /\ r.status = 200
              /\ r.alerts = << >>
              /\ r.total = AlertCount(alerts_store, S)

\* Thread w returns from receive_alert with success (lines 334-338).
SuccessReturn(w) == http[w].pc = "ra330w" /\ http'[w] = IdleThread

\* C17: when receive_alert returns success, the alert_id of the reply is the
\* id of the record the request stored, that record carries the submitted
\* payload as its data, and the unfiltered list that follows contains it.
C17_ReturnedIdNamesStoredRecord ==
    [][\A w \in Workers :
          SuccessReturn(w) =>
             LET stored == alerts_store'[Len(alerts_store')]
                 listed == get_alerts_result(alerts_store', 100, 0, NoFilter).alerts
             IN  /\ response'.op = "receive_alert"
                 /\ response'.status = 200
                 /\ stored.id = response'.alert_id
                 /\ stored.data = http[w].alert_data
                 /\ \E i \in 1..Len(listed) :
                       /\ listed[i].id = response'.alert_id
                       /\ listed[i].data = http[w].alert_data]_vars

\* A payload with fields was ingested and the reply names its record.
C17_Witness ==
    /\ Quiescent
    /\ response.op = "receive_alert"
    /\ response.status = 200
    /\ alerts_store # << >>
    /\ alerts_store[Len(alerts_store)].id = response.alert_id
    /\ HasSeverity(alerts_store[Len(alerts_store)], "CRITICAL")

\* handle_DATA appends the record of the message it holds (line 107).
AppendStep == loop.pc = "hd107" /\ loop'.pc = "hd110r"

\* The parts C18 speaks of: text/plain and text/html, not marked as an
\* attachment in their Content-Disposition.
IsBodyPart(part) ==
    /\ part.ctype \in { "text/plain", "text/html" }
    /\ ~Contains(attachment, part.disposition)

\* The decoded text of a part; a part in a charset that cannot be decoded
\* has none.
DecodedText(part) ==
    IF part.charset \in KnownCharsets THEN Utf8DecodeReplace(part.payload) ELSE << >>

\* The concatenation, in part order, of the decoded text of the body parts.
RECURSIVE Concatenation(_)
Concatenation(parts) ==
    IF parts = << >> THEN << >>
    ELSE (IF IsBodyPart(Head(parts)) THEN DecodedText(Head(parts)) ELSE << >>)
         \o Concatenation(Tail(parts))

CountSubjectStep == loop.pc = "hd111w" /\ loop' = IdleLoop

\* The text a Subject header value stands for: its characters, or the text
\* its encoded word encodes.
HeaderText(header_value) ==
    IF header_value.kind = "plain" THEN header_value.v
    ELSE Utf8DecodeReplace(header_value.v)

\* The subject C19 expects for message m.
ExpectedSubject(m) ==
    IF "Subject" \in DOMAIN m.headers THEN HeaderText(m.headers["Subject"])
    ELSE NoSubject

\* C19: an e-mail without a Subject header is stored with the subject
\* "No Subject" and counted under "No Subject" in by_subject; an e-mail with
\* a Subject header is stored with, and counted under, the decoded value of
\* the header.
C19_SubjectOrNoSubject ==
    [][/\ AppendStep
          => emails_store'[Len(emails_store')].subject = ExpectedSubject(loop.message)
       /\ CountSubjectStep
          => DictGet(email_stats'.by_subject, ExpectedSubject(loop.message), 0)
                = DictGet(email_stats.by_subject, ExpectedSubject(loop.message), 0) + 1]_vars

\* One e-mail without a Subject header and one with the Subject
\* =?utf-8?b?w6k=?= are stored and counted.
C19_Witness ==
    /\ loop = IdleLoop
    /\ \E i \in 1..Len(emails_store) : emails_store[i].subject = NoSubject
    /\ \E i \in 1..Len(emails_store) : emails_store[i].subject = << 233 >>
    /\ DictGet(email_stats.by_subject, NoSubject, 0) = 1
    /\ DictGet(email_stats.by_subject, << 233 >>, 0) = 1

\* The alert pair as one of the two serial orders of a clear and an
\* ingestion leaves it: ingestion then clear, or clear then ingestion.
AlertPairAfterSerialOrder ==
    \/ alerts_store = << >> /\ alert_stats = ZeroAlertStats
    \/ /\ Len(alerts_store) = 1
       /\ alerts_store[1].id = 1
       /\ alert_stats.total_received = 1
       /\ alert_stats.by_severity = DictSet(EmptyDict, SeverityOf(alerts_store[1].data), 1)
       /\ alert_stats.by_type = DictSet(EmptyDict, AlertTypeOf(alerts_store[1].data), 1)

EmailPairAfterSerialOrder ==
    \/ emails_store = << >> /\ email_stats = ZeroEmailStats
    \/ /\ Len(emails_store) = 1
       /\ emails_store[1].id = 1
       /\ email_stats.total_received = 1
       /\ email_stats.by_sender = DictSet(EmptyDict, emails_store[1].from, 1)
       /\ email_stats.by_subject = DictSet(EmptyDict, emails_store[1].subject, 1)

\* C20: when one ingestion and one clear of the same pair have run, in any
\* interleaving, on the empty pair, the pair is as one of the two serial
\* orders leaves it: empty with total_received 0 and empty category maps,
\* or one record with id 1, total_received 1 and its category counts.
C20_ClearAndIngestionSerialize ==
    /\ ( /\ Quiescent
         /\ ops = 2
         /\ alert_cleared
         /\ alert_rejects = 0
         /\ \A i \in 1..Len(alerts_store) : IsDict(alerts_store[i].data) )
         => AlertPairAfterSerialOrder
    /\ ( /\ Quiescent
         /\ ops = 2
         /\ email_cleared
         /\ email_rejects = 0 )
         => EmailPairAfterSerialOrder

\* The positions of receive_alert and of handle_DATA after the id was taken.
AlertIdTaken == { "ra322", "ra325", "ra326w", "ra330r", "ra330w" }
EmailIdTaken == { "hd107", "hd110r", "hd110w", "hd111r", "hd111w" }

\* C21: the id of an ingestion is the value of total_received after its own
\* increment, the previous total_received + 1; so between requests, after
\* any sequence of ingestions and clears, the newest record of a non-empty
\* store has id equal to the current total_received.  For both channels.
C21_NewestIdIsTotalReceived ==
    /\ \A w \in Workers :
          http[w].pc \in AlertIdTaken => http[w].id = alert_stats.total_received
    /\ loop.pc \in EmailIdTaken => loop.id = email_stats.total_received
    /\ Quiescent /\ alerts_store # << >>
          => alerts_store[Len(alerts_store)].id = alert_stats.total_received
    /\ Quiescent /\ emails_store # << >>
          => emails_store[Len(emails_store)].id = email_stats.total_received
    /\ Quiescent /\ response.op = "receive_alert" /\ response.status = 200
          => response.alert_id = alert_stats.total_received

\* A clear, then an ingestion: the store holds a record again.
C21_Witness ==
    /\ Quiescent
    /\ alert_cleared
    /\ alerts_store # << >>
    /\ alerts_store[Len(alerts_store)].id = 1
    /\ alert_stats.total_received = 1

\* C22: a list reply to a request with a zero or negative limit carries no
\* record, whatever the offset and the store.
C22_NonPositiveLimitIsEmpty ==
    /\ ( /\ response.op = "get_alerts"
         /\ response.status = 200
         /\ response.limit <= 0 )
         => response.alerts = << >>
    /\ response.op = "get_emails" /\ response.limit <= 0
         => response.emails = << >>

\* The buckets C23 names for a payload.
SeverityBucket(payload) ==
    IF "severity" \in DOMAIN payload.fields THEN payload.fields["severity"]
    ELSE "UNKNOWN"
TypeBucket(payload) ==
    IF "alertType" \in DOMAIN payload.fields THEN payload.fields["alertType"]
    ELSE IF "type" \in DOMAIN payload.fields THEN payload.fields["type"]
    ELSE "UNKNOWN"

\* Map new is map old with bucket k one higher, created if it was absent,
\* and every other bucket as it was.
OneBucketIncremented(old, new, k) ==
    /\ DOMAIN new = DOMAIN old \cup { k }
    /\ new[k] = DictGet(old, k, 0) + 1
    /\ \A x \in DOMAIN old \ { k } : new[x] = old[x]

\* No bucket of map old is missing or lower in map new.
NoBucketLost(old, new) ==
    \A x \in DOMAIN old : x \in DOMAIN new /\ new[x] >= old[x]

\* The two statements of clear_alerts that empty a category map.
ClearsAlertMap == \E w \in Workers : http[w].pc \in { "ca419", "ca420" } /\ http'[w] # http[w]

\* C23: a successful alert ingestion adds 1 to exactly one by_severity
\* bucket, the payload's severity or "UNKNOWN", and to exactly one by_type
\* bucket, the payload's alertType, else its type, else "UNKNOWN", creating
\* the bucket if absent; no other step but those of clear removes or lowers
\* a bucket.
C23_OneBucketPerIngestion ==
       [][/\ \A w \in Workers :
               /\ http[w].pc = "ra326w" /\ http'[w].pc = "ra330r"
                     => /\ OneBucketIncremented(alert_stats.by_severity,
                                                alert_stats'.by_severity,
                                                SeverityBucket(http[w].alert_data))
                        /\ alert_stats'.by_type = alert_stats.by_type
               /\ SuccessReturn(w)
                     => /\ OneBucketIncremented(alert_stats.by_type,
                                                alert_stats'.by_type,
                                                TypeBucket(http[w].alert_data))
                        /\ alert_stats'.by_severity = alert_stats.by_severity
          /\ ~ClearsAlertMap
               => /\ NoBucketLost(alert_stats.by_severity, alert_stats'.by_severity)
                  /\ NoBucketLost(alert_stats.by_type, alert_stats'.by_type)]_vars

\* A payload without keys, one with the legacy type key alone and one with
\* both type keys were ingested.
C23_Witness ==
    /\ Quiescent
    /\ alert_stats.by_severity = DictSet(EmptyDict, "UNKNOWN", 3)
    /\ alert_stats.by_type =
          DictSet(DictSet(DictSet(EmptyDict, "UNKNOWN", 1), "LAG", 1), "BROKER_DOWN", 1)

\* A query operation runs: each is one step, from its call to its reply,
\* and the reply names the thread and the parameters of the call.
QueryStep ==
    /\ ops' = ops + 1
    /\ http' = http
    /\ loop' = loop
    /\ LET reply == response'
       IN  \/ /\ reply.op = "get_alerts"
              /\ get_alerts(Serial, reply.worker, reply.limit, reply.offset,
                            reply.severity)
           \/ /\ reply.op = "get_emails"
              /\ get_emails(Serial, reply.worker, reply.limit, reply.offset,
                            reply.sender)
           \/ reply.op = "get_alert_stats" /\ get_alert_stats(Serial, reply.worker)
           \/ reply.op = "get_email_stats" /\ get_email_stats(Serial, reply.worker)
           \/ reply.op = "health_check" /\ health_check(Serial, reply.worker)

\* C24: every query operation, whatever its filter, offset and limit, leaves
\* both stores and both aggregates, and with them both id counters, as they
\* were; health reports the current sizes of the two stores.
C24_QueriesAreReadOnly ==
    [][QueryStep =>
          /\ UNCHANGED << alerts_store, alert_stats, emails_store, email_stats >>
          /\ response'.op = "health_check"
                => /\ response'.alerts_stored = Len(alerts_store')
                   /\ response'.emails_stored = Len(emails_store')]_vars

\* Health has answered on stores of different sizes.
C24_Witness ==
    /\ response.op = "health_check"
    /\ response.alerts_stored = 2
    /\ response.emails_stored = 0
    /\ Len(alerts_store) = 2
    /\ emails_store = << >>

\* C25: while nothing has been evicted or cleared, for every severity label
\* S, the sentinel "UNKNOWN" included, the total of the list filtered by S
\* equals the count by_severity[S] of the alert stats (0 when the stats have
\* no such bucket).
C25_FilteredTotalIsSeverityCount ==
    ( /\ Quiescent
      /\ ~alert_cleared
      /\ Len(alerts_appended) <= maxlen )
    => \A S \in AnySeverity \ { NoFilter } :
          LET reply == get_alerts_result(alerts_store, 100, 0, S)
          IN  /\ reply.status = 200
              /\ reply.total = DictGet(alert_stats.by_severity, S, 0)

\* The same for the stores that hold object payloads only.
FilteredTotalOfObjects ==
    ( /\ Quiescent
      /\ ~alert_cleared
      /\ Len(alerts_appended) <= maxlen
      /\ \A i \in 1..Len(alerts_store) : IsDict(alerts_store[i].data) )
    => \A S \in AnySeverity \ { NoFilter } :
          get_alerts_result(alerts_store, 100, 0, S).total
             = DictGet(alert_stats.by_severity, S, 0)

\* The same for every label but the sentinel.
FilteredTotalOfLabels ==
    ( /\ Quiescent
      /\ ~alert_cleared
      /\ Len(alerts_appended) <= maxlen
      /\ \A i \in 1..Len(alerts_store) : IsDict(alerts_store[i].data) )
    => \A S \in AnySeverity \ { NoFilter, "UNKNOWN" } :
          get_alerts_result(alerts_store, 100, 0, S).total
             = DictGet(alert_stats.by_severity, S, 0)

\* The counts of the two category maps of each channel add up to the
\* channel's total_received.
AlertCategorySums ==
    /\ DictSum(alert_stats.by_severity) = alert_stats.total_received
    /\ DictSum(alert_stats.by_type) = alert_stats.total_received
EmailCategorySums ==
    /\ DictSum(email_stats.by_sender) = email_stats.total_received
    /\ DictSum(email_stats.by_subject) = email_stats.total_received

\* C26: in every quiescent state, after any sequence of completed ingestion
\* attempts and clears, the by_severity counts and the by_type counts each
\* add up to the alert total_received, and the by_sender counts and the
\* by_subject counts each add up to the e-mail total_received.
C26_CategorySumsEqualTotal ==
    Quiescent => AlertCategorySums /\ EmailCategorySums

\* The e-mail half, and the alert half while every body appended since the
\* last clear was an object.
CategorySumsOfObjects ==
    Quiescent =>
       /\ EmailCategorySums
       /\ (\A i \in 1..Len(alerts_appended) : IsDict(alerts_appended[i].data))
             => AlertCategorySums

\* The loop thread stays with the message in hand until handle_DATA returns.
NoSessionInterleaves ==
    loop.pc # "idle" =>
       \/ loop'.pc = "idle"
       \/ loop'.session = loop.session /\ loop'.message = loop.message

\* The k-th record appended has id k; between two calls of handle_DATA the
\* accepted messages have the ids 1..n in order and are counted once each in
\* total_received, by_sender and by_subject.
DeliveredOnce ==
    /\ \A k \in 1..Len(emails_appended) : emails_appended[k].id = k
    /\ loop.pc = "idle" =>
          /\ email_ids = [k \in 1..Len(emails_appended) |-> k]
          /\ email_stats.total_received = Len(emails_appended)
          /\ EmailCategorySums

\* C27: messages delivered by concurrent SMTP sessions, with no clear
\* running, get pairwise distinct, gap-free ids and are each counted exactly
\* once, because no session's handle_DATA starts inside another's.
C27_SessionsDoNotInterleave ==
    [][NoSessionInterleaves]_vars /\ []DeliveredOnce

\* Two sessions have each had a message accepted.
C27_Witness ==
    /\ loop.pc = "idle"
    /\ ops = 2
    /\ Len(emails_appended) = 2
    /\ \E s, t \in OpenSessions :
          /\ s # t
          /\ session[s].state = "MessageReceived"
          /\ session[t].state = "MessageReceived"

=============================================================================
